---- MODULE Spec2Model ----
(***************************************************************************)
(* A model of streamcoin.py: the Streamlit page that fetches one page of   *)
(* CoinGecko market data, selects the report universe (pick_universe),     *)
(* attaches scenario bands (default_scenarios / SCENARIO_OVERRIDES),       *)
(* caches the report for 60 seconds (st.cache_data) and renders it.        *)
(*                                                                         *)
(* Numbers.  Prices and percent changes are fixed-point integers counted   *)
(* in hundredths (1.05 is 105, 2.5 is 250); market caps are whole dollars. *)
(* A nullable number is None (the empty tuple) or Some(v) (a 1-tuple).     *)
(* Strings are TLA+ strings; lower(), upper() and the substring test are   *)
(* computed character by character.                                        *)
(***************************************************************************)
EXTENDS Integers, Sequences, FiniteSets, TLC

(***************************************************************************)
(* CONFIG (streamcoin.py lines 9-41)                                       *)
(***************************************************************************)
\* TOP_N is 50 in the source; the model scales it down, the window the loop
\* scans stays TOP_N*2 as in the source.
TOP_N == 2

\* the ttl of @st.cache_data, in seconds
TTL == 60

EXCLUDE_IDS ==
    {"wrapped-bitcoin", "weth", "staked-ether", "wrapped-beacon-eth",
     "coinbase-wrapped-staked-eth"}

EXCLUDE_SYMS == {"wbtc", "weth", "steth", "wbeth", "cbeth"}

KNOWN_STABLE_IDS ==
    {"tether", "usd-coin", "dai", "frax", "first-digital-usd", "true-usd",
     "paxos-standard", "binance-usd", "gemini-dollar", "liquity-usd", "usdd",
     "nusd", "susd", "usde", "paypal-usd"}

KNOWN_STABLE_SYMS ==
    {"usdt", "usdc", "dai", "frax", "fdusd", "tusd", "usdp", "busd", "gusd",
     "lusd", "usdd", "susd", "usde", "pyusd"}

\* the en dash of the source's range strings is written "-" here
SCENARIO_OVERRIDES ==
    ("bitcoin"     :> <<"200000", "120000-150000", "80000-100000">>) @@
    ("ethereum"    :> <<"10000",  "5000-7000",     "2500-4000">>) @@
    ("solana"      :> <<"800",    "200-400",       "<150">>) @@
    ("binancecoin" :> <<"2000",   "1000-1300",     "500-800">>) @@
    ("ripple"      :> <<"10",     "3-5",           "1.5-3">>) @@
    ("cardano"     :> <<"4",      "1-2",           "0.3-0.8">>) @@
    ("dogecoin"    :> <<"1.00",   "0.30-0.50",     "0.10-0.25">>) @@
    ("avalanche-2" :> <<"150",    "40-80",         "20-35">>) @@
    ("polkadot"    :> <<"20",     "7-12",          "3-5">>) @@
    ("chainlink"   :> <<"80",     "30-60",         "15-25">>) @@
    ("tron"        :> <<"0.80",   "0.40-0.60",     "0.20-0.30">>) @@
    ("cosmos"      :> <<"25",     "8-15",          "3-6">>)

\* the sentinel, an em dash (U+2014) in the source, written "--" here
DASH == "--"

(***************************************************************************)
(* Python values                                                           *)
(***************************************************************************)
None == << >>
Some(v) == << v >>
Val(x) == x[1]

Abs(n) == IF n < 0 THEN -n ELSE n

UpperLetters == "ABCDEFGHIJKLMNOPQRSTUVWXYZ"
LowerLetters == "abcdefghijklmnopqrstuvwxyz"

\* the position of the one-character string ch in letters, 0 when absent
LetterIndex(ch, letters) ==
    IF \E i \in 1..Len(letters) : SubSeq(letters, i, i) = ch
    THEN CHOOSE i \in 1..Len(letters) : SubSeq(letters, i, i) = ch
    ELSE 0

MapChar(ch, from, to) ==
    LET i == LetterIndex(ch, from)
    IN  IF i = 0 THEN ch ELSE SubSeq(to, i, i)

RECURSIVE MapString(_, _, _)
MapString(s, from, to) ==
    IF Len(s) = 0 THEN ""
    ELSE MapChar(SubSeq(s, 1, 1), from, to)
         \o MapString(SubSeq(s, 2, Len(s)), from, to)

\* str.lower() and str.upper()
Lower(s) == MapString(s, UpperLetters, LowerLetters)
Upper(s) == MapString(s, LowerLetters, UpperLetters)

\* Python's `sub in s` on strings
Contains(sub, s) ==
    \E i \in 1..(Len(s) - Len(sub) + 1) : SubSeq(s, i, i + Len(sub) - 1) = sub

(***************************************************************************)
(* HELPERS (streamcoin.py lines 44-62)                                     *)
(***************************************************************************)
\* the `except Exception: pass` never fires on numbers; a change is None
\* or a number
looks_stable_like(price, ch24, ch7d) ==
    IF price = None THEN FALSE
    ELSE LET near_one == 95 <= Val(price) /\ Val(price) <= 105
             low_vol  == IF ch24 # None /\ ch7d # None
                         THEN Abs(Val(ch24)) < 250 /\ Abs(Val(ch7d)) < 400
                         ELSE TRUE
         IN  near_one /\ low_vol

(***************************************************************************)
(* Number formatting: Python's format specs ",.2f", "+.2f" and ",.0f"      *)
(***************************************************************************)
Digits == "0123456789"
Digit(d) == SubSeq(Digits, d + 1, d + 1)

\* str(n) for n >= 0
RECURSIVE Decimal(_)
Decimal(n) == IF n < 10 THEN Digit(n) ELSE Decimal(n \div 10) \o Digit(n % 10)

\* n >= 0 in three digits, zero padded
Pad3(n) == Digit(n \div 100) \o Digit((n \div 10) % 10) \o Digit(n % 10)
Pad2(n) == Digit(n \div 10) \o Digit(n % 10)

\* n >= 0 with thousands separators (the "," of the format spec)
RECURSIVE Grouped(_)
Grouped(n) ==
    IF n < 1000 THEN Decimal(n)
    ELSE Grouped(n \div 1000) \o "," \o Pad3(n % 1000)

\* num/den >= 0 rounded to the nearest integer, ties to even: what ".2f"
\* does when the float holds the product exactly
RoundHalfEven(num, den) ==
    LET q == num \div den
        r == num % den
    IN  IF 2 * r < den THEN q
        ELSE IF 2 * r > den THEN q + 1
        ELSE IF q % 2 = 0 THEN q ELSE q + 1

\* f"{x:,.2f}" of a number x >= 0 given in hundredths
Fixed2(h) == Grouped(h \div 100) \o "." \o Pad2(h % 100)

\* lines 56-62.  curr_price*2.5, *1.5 and *0.6 in hundredths are
\* curr_price*5/2, *3/2 and *3/5.
default_scenarios(curr_price) ==
    IF curr_price = None \/ Val(curr_price) <= 0
    THEN <<DASH, DASH, DASH>>
    ELSE LET p    == Val(curr_price)
             bull == Fixed2(RoundHalfEven(p * 5, 2))
             base == Fixed2(RoundHalfEven(p * 3, 2))
             bear == Fixed2(RoundHalfEven(p * 3, 5))
         IN  <<bull, base, bear>>

(***************************************************************************)
(* pick_universe (streamcoin.py lines 78-109).  INCLUDE_ONLY is empty, so  *)
(* the branch of lines 80-87 is never taken.                               *)
(***************************************************************************)
Min(a, b) == IF a <= b THEN a ELSE b

\* the sort key of line 90: x.get("market_cap") or 0
MarketCapKey(c) == IF c.market_cap = None THEN 0 ELSE Val(c.market_cap)

\* c put behind every element of the sorted list whose key is >= its own
RECURSIVE InsertDesc(_, _)
InsertDesc(c, sorted) ==
    IF sorted = << >> THEN << c >>
    ELSE IF MarketCapKey(Head(sorted)) >= MarketCapKey(c)
         THEN << Head(sorted) >> \o InsertDesc(c, Tail(sorted))
         ELSE << c >> \o sorted

RECURSIVE SortFrom(_, _)
SortFrom(rest, sorted) ==
    IF rest = << >> THEN sorted
    ELSE SortFrom(Tail(rest), InsertDesc(Head(rest), sorted))

\* mutant: line 90 left out, the response scanned in the order it came
UnsortedMarkets(markets) == markets

\* line 90: markets.sort(key=..., reverse=True), a stable sort
SortByMarketCap(markets) == SortFrom(markets, << >>)

\* mutant: the loop scanning markets[:TOP_N], no extra records
CandidatesTopN(markets) == SubSeq(markets, 1, Min(Len(markets), TOP_N))

\* line 93: markets[:TOP_N*2]
Candidates(markets) == SubSeq(markets, 1, Min(Len(markets), TOP_N * 2))

\* mutant: the symbol compared as the API spelled it, without lower()
SymAsGiven(c) == c.symbol

\* line 95: (c.get("symbol") or "").lower(), line 96 likewise
Sym(c) == Lower(c.symbol)
Name(c) == Lower(c.name)

\* line 101
Wrapped(c) == c.id \in EXCLUDE_IDS \/ Sym(c) \in EXCLUDE_SYMS

\* line 102
KnownStable(c) == c.id \in KNOWN_STABLE_IDS \/ Sym(c) \in KNOWN_STABLE_SYMS

\* line 103
StableHeuristic(c) ==
    /\ looks_stable_like(c.current_price, c.price_change_percentage_24h,
                         c.price_change_percentage_7d_in_currency)
    /\ (Contains("usd", Sym(c)) \/ Contains("usd", Name(c)))

\* the three `continue`s of lines 101-104
Skipped(c) == Wrapped(c) \/ KnownStable(c) \/ StableHeuristic(c)

\* mutant: the break test off by one, len(picked) > TOP_N
FullOffByOne(picked) == Len(picked) > TOP_N

\* line 107: the break test
Full(picked) == Len(picked) >= TOP_N

\* the loop of lines 93-108 over the candidates left, picked so far
RECURSIVE PickLoop(_, _)
PickLoop(cands, picked) ==
    IF cands = << >> THEN picked
    ELSE IF Skipped(Head(cands)) THEN PickLoop(Tail(cands), picked)
    ELSE LET grown == Append(picked, Head(cands))
         IN  IF Full(grown) THEN grown ELSE PickLoop(Tail(cands), grown)

pick_universe(markets) ==
    PickLoop(Candidates(SortByMarketCap(markets)), << >>)

(***************************************************************************)
(* fetch_data (streamcoin.py lines 113-138)                                *)
(***************************************************************************)
\* mutant: the override used only when no scenario can be computed from
\* the live price
ScenarioLivePriceFirst(cid, price) ==
    IF price # None /\ Val(price) > 0 THEN default_scenarios(price)
    ELSE IF cid \in DOMAIN SCENARIO_OVERRIDES THEN SCENARIO_OVERRIDES[cid]
    ELSE default_scenarios(price)

\* line 124: SCENARIO_OVERRIDES.get(cid, default_scenarios(price)); the
\* default is evaluated before the lookup
Scenario(cid, price) ==
    LET default == default_scenarios(price)
    IN  IF cid \in DOMAIN SCENARIO_OVERRIDES
        THEN SCENARIO_OVERRIDES[cid] ELSE default

\* lines 117-136: the row of the i-th record of the universe
Row(i, c) ==
    LET sc == Scenario(c.id, c.current_price)
    IN  [Rank |-> i, Sym |-> Upper(c.symbol), Name |-> c.name,
         LiveUSD |-> c.current_price,
         Ch24 |-> c.price_change_percentage_24h,
         MarketCap |-> c.market_cap,
         Bull |-> sc[1], Base |-> sc[2], Bear |-> sc[3]]

Rows(universe) == [i \in 1..Len(universe) |-> Row(i, universe[i])]

RECURSIVE InsertRank(_, _)
InsertRank(r, sorted) ==
    IF sorted = << >> THEN << r >>
    ELSE IF Head(sorted).Rank <= r.Rank
         THEN << Head(sorted) >> \o InsertRank(r, Tail(sorted))
         ELSE << r >> \o sorted

RECURSIVE SortRankFrom(_, _)
SortRankFrom(rest, sorted) ==
    IF rest = << >> THEN sorted
    ELSE SortRankFrom(Tail(rest), InsertRank(Head(rest), sorted))

\* line 137: DataFrame(rows).sort_values("Rank").  A frame built from an
\* empty list has no columns, so sort_values raises KeyError('Rank').
SortValuesRank(rows) ==
    IF rows = << >> THEN [exc |-> "KeyError", df |-> << >>]
    ELSE [exc |-> "none", df |-> SortRankFrom(rows, << >>)]

\* the body of fetch_data on the response of the request of line 89
fetch_data(markets) == SortValuesRank(Rows(pick_universe(markets)))

(***************************************************************************)
(* Display formatting (streamcoin.py lines 165-177)                        *)
(***************************************************************************)
Signed(x, body) == IF x < 0 THEN "-" \o body ELSE body

\* lines 165-172, x a price in hundredths: the tiers at 0.000001 and
\* below hold only x = 0 here
fmt_price(x) ==
    LET ax == Abs(x)
    IN  IF ax >= 10000 THEN "$" \o Signed(x, Fixed2(ax))
        ELSE IF ax >= 100 THEN "$" \o Signed(x, Fixed2(ax) \o "00")
        ELSE IF ax >= 1 THEN "$" \o Signed(x, Fixed2(ax) \o "0000")
        ELSE "$0.00e+00"

\* line 175
ShowPrice(x) == IF x # None THEN fmt_price(Val(x)) ELSE DASH

\* mutant: line 176 without its notna guard, formatting the NaN
ShowChangeNoGuard(x) ==
    IF x # None
    THEN (IF Val(x) < 0 THEN "-" ELSE "+")
         \o Decimal(Abs(Val(x)) \div 100) \o "." \o Pad2(Abs(Val(x)) % 100)
         \o "%"
    ELSE "+nan%"

\* line 176: f"{x:+.2f}%"
ShowChange(x) ==
    IF x # None
    THEN (IF Val(x) < 0 THEN "-" ELSE "+")
         \o Decimal(Abs(Val(x)) \div 100) \o "." \o Pad2(Abs(Val(x)) % 100)
         \o "%"
    ELSE DASH

\* line 177: f"${x:,.0f}"
ShowMarketCap(x) ==
    IF x # None THEN "$" \o Signed(Val(x), Grouped(Abs(Val(x)))) ELSE DASH

\* lines 174-177: df_display
DisplayRow(r) ==
    [r EXCEPT !.LiveUSD = ShowPrice(r.LiveUSD),
              !.Ch24 = ShowChange(r.Ch24),
              !.MarketCap = ShowMarketCap(r.MarketCap)]

df_display(df) == [i \in 1..Len(df) |-> DisplayRow(df[i])]

(***************************************************************************)
(* The market data the endpoint serves                                     *)
(***************************************************************************)
\* the longest response of the model (PER_PAGE is 250 in the source)
MaxLen == 5

\* the clock value (seconds) from which time no longer advances
MaxClock == 60

Coin(id, symbol, name, price, ch24, ch7d, mcap) ==
    [id |-> id, symbol |-> symbol, name |-> name, current_price |-> price,
     price_change_percentage_24h |-> ch24,
     price_change_percentage_7d_in_currency |-> ch7d, market_cap |-> mcap]

\* every list of at most n records of pool with pairwise distinct ids
Lists(pool, n) ==
    UNION { { f \in [1..k -> pool] :
                \A i, j \in 1..k : i # j => f[i].id # f[j].id } : k \in 0..n }

\* wrapped, stable and eligible coins, the excluded ones on top by
\* market cap
RankingPool ==
    { Coin("some-wrapped", "WBTC", "Wrapped X", Some(6000000), Some(120),
           Some(-300), Some(900)),
      Coin("tether", "usdt", "Tether", Some(100), Some(1), Some(2),
           Some(800)),
      Coin("xusd", "XUSD", "X Dollar", Some(100), Some(10), Some(20),
           Some(700)),
      Coin("bitcoin", "btc", "Bitcoin", Some(6000000), Some(-120),
           Some(500), Some(600)),
      Coin("bar", "bar", "Bar", None, None, None, None) }

\* eligible coins only, two of them with the same sort key
EligiblePool ==
    { Coin("ethereum", "eth", "Ethereum", Some(250000), Some(30), Some(40),
           Some(400)),
      Coin("foo", "Foo", "Foo", Some(1000), None, Some(10), Some(300)),
      Coin("zero", "zr", "Zero", Some(25), Some(10), None, Some(0)),
      Coin("nul", "nl", "Nul", Some(123450), Some(10), Some(10), None) }

Prices == {None, Some(94), Some(95), Some(100), Some(105), Some(106)}
Changes24 == {None, Some(10), Some(-249), Some(250), Some(1000)}
Changes7d == {None, Some(20), Some(-400)}
Labels == { <<"XUSD", "X">>, <<"abc", "Usd Coin X">>, <<"abc", "Abc">> }

\* one coin around the stable-like heuristic's thresholds
HeuristicPool ==
    { Coin("foo", l[1], l[2], p, a, b, Some(100)) :
        l \in Labels, p \in Prices, a \in Changes24, b \in Changes7d }

\* overridden and plain ids at null, zero, negative and positive prices
\* (prices whose float products Python rounds as RoundHalfEven does)
ScenarioPool ==
    { Coin(id, "sym", "Name", p, Some(10), Some(10), Some(100)) :
        id \in {"bitcoin", "avalanche-2", "foo"},
        p \in {None, Some(0), Some(-100), Some(25), Some(1000),
               Some(123450)} }

Maybe(v) == {None, Some(v)}

\* every combination of null numeric fields
NullPool ==
    { Coin(id, "abc", "Abc", p, a, b, m) :
        id \in {"foo", "tether"}, p \in Maybe(15000), a \in Maybe(-320),
        b \in Maybe(20), m \in Maybe(123456789) }

Singles(pool) == { << c >> : c \in pool }

Responses ==
    Lists(RankingPool, MaxLen)
    \cup Lists(EligiblePool, MaxLen)
    \cup Singles(HeuristicPool)
    \cup Singles(ScenarioPool)
    \cup Singles(NullPool)

(***************************************************************************)
(* State                                                                   *)
(***************************************************************************)
VARIABLES
    api,        \* the records the markets endpoint returns, in its order
    now,        \* the clock, in seconds
    cache,      \* st.cache_data's entry for fetch_data: None or Some(entry)
    pc,         \* where the script run is: "idle", "fetch", "format"
    trigger,    \* what started the current run: "load" or "refresh"
    http,       \* the request of the current run: "none", "ok", "failed"
    httpCalls,  \* the requests issued in the current run
    universe,   \* fetch_data's local universe (line 114)
    df,         \* the frame fetch_data returned to line 159
    screen,     \* what the page shows: "blank", "error" or "table"
    exc,        \* the exception st.error reports, "none" without one
    shown,      \* the rows st.dataframe displays
    lastOk,     \* history: when the last successful request was made
    refreshed   \* history: Refresh was pressed since that request

vars == <<api, now, cache, pc, trigger, http, httpCalls, universe, df,
          screen, exc, shown, lastOk, refreshed>>

Init ==
    /\ api \in Responses
    /\ now = 0
    /\ cache = None
    /\ pc = "idle"
    /\ trigger = "load"
    /\ http = "none"
    /\ httpCalls = 0
    /\ universe = << >>
    /\ df = << >>
    /\ screen = "blank"
    /\ exc = "none"
    /\ shown = << >>
    /\ lastOk = None
    /\ refreshed = FALSE

\* ttl=60 of line 112: an entry is served while it is younger than TTL
Fresh == cache # None /\ now - Val(cache).at < TTL

\* a script run starts from the top with an empty page
StartRun(why) ==
    /\ pc = "idle"
    /\ pc' = "fetch"
    /\ trigger' = why
    /\ http' = "none"
    /\ httpCalls' = 0
    /\ universe' = << >>
    /\ df' = << >>
    /\ screen' = "blank"
    /\ exc' = "none"
    /\ shown' = << >>

\* time passes while the page is idle
Tick ==
    /\ pc = "idle"
    /\ now < MaxClock
    /\ now' = now + 30
    /\ UNCHANGED <<api, cache, pc, trigger, http, httpCalls, universe, df,
                   screen, exc, shown, lastOk, refreshed>>

\* the page is loaded or rerun without the button: line 145 is false
Load ==
    /\ StartRun("load")
    /\ UNCHANGED <<api, now, cache, lastOk, refreshed>>

\* lines 145-150: the button is pressed, the cache is cleared and
\* st.rerun() starts the script again with the button unpressed
PressRefresh ==
    /\ StartRun("refresh")
    /\ cache' = None
    /\ refreshed' = TRUE
    /\ UNCHANGED <<api, now, lastOk>>

\* mutant: st.error without st.stop(), the script running on to the table
OnExceptionNoStop(e) ==
    /\ screen' = "error"
    /\ exc' = e
    /\ pc' = "format"
    /\ shown' = << >>

\* lines 160-162: st.error and st.stop()
OnException(e) ==
    /\ screen' = "error"
    /\ exc' = e
    /\ pc' = "idle"
    /\ shown' = << >>

\* line 159 with a fresh entry: the decorator returns the cached frame
FetchCached ==
    /\ pc = "fetch"
    /\ Fresh
    /\ df' = Val(cache).df
    /\ pc' = "format"
    /\ UNCHANGED <<api, now, cache, trigger, http, httpCalls, universe,
                   screen, exc, shown, lastOk, refreshed>>

\* line 159 without a fresh entry, the request of line 74 succeeding:
\* fetch_data runs, and its result is cached unless it raises
FetchOk ==
    /\ pc = "fetch"
    /\ ~Fresh
    /\ http' = "ok"
    /\ httpCalls' = httpCalls + 1
    /\ lastOk' = Some(now)
    /\ refreshed' = FALSE
    /\ universe' = pick_universe(api)
    /\ LET res == fetch_data(api)
       IN  IF res.exc # "none"
           THEN /\ OnException(res.exc)
                /\ df' = << >>
                /\ cache' = None
           ELSE /\ df' = res.df
                /\ cache' = Some([at |-> now, df |-> res.df])
                /\ pc' = "format"
                /\ UNCHANGED <<screen, exc, shown>>
    /\ UNCHANGED <<api, now, trigger>>

\* line 159 without a fresh entry, the request failing (transport error,
\* or raise_for_status on a non-2xx answer)
FetchFail ==
    /\ pc = "fetch"
    /\ ~Fresh
    /\ http' = "failed"
    /\ httpCalls' = httpCalls + 1
    /\ OnException("HTTPError")
    /\ cache' = None
    /\ UNCHANGED <<api, now, trigger, universe, df, lastOk, refreshed>>

\* lines 174-179
Render ==
    /\ pc = "format"
    /\ shown' = df_display(df)
    /\ screen' = "table"
    /\ pc' = "idle"
    /\ UNCHANGED <<api, now, cache, trigger, http, httpCalls, universe, df,
                   exc, lastOk, refreshed>>

Next ==
    \/ Tick
    \/ Load
    \/ PressRefresh
    \/ FetchCached
    \/ FetchOk
    \/ FetchFail
    \/ Render

Spec == Init /\ [][Next]_vars

(***************************************************************************)
(* Properties                                                              *)
(***************************************************************************)
Range(seq) == { seq[i] : i \in 1..Len(seq) }
FirstN(seq, n) == SubSeq(seq, 1, Min(n, Len(seq)))
Eligible(c) == ~Skipped(c)
CapOrZero(x) == IF x = None THEN 0 ELSE Val(x)

\* C1: no record returned by pick_universe has an id in EXCLUDE_IDS or
\* KNOWN_STABLE_IDS, nor a symbol whose lower-cased form is in
\* EXCLUDE_SYMS or KNOWN_STABLE_SYMS, whatever the symbol's letter case.
C1_NoExcludedPicked ==
    \A c \in Range(universe) :
        /\ c.id \notin EXCLUDE_IDS \cup KNOWN_STABLE_IDS
        /\ Lower(c.symbol) \notin EXCLUDE_SYMS \cup KNOWN_STABLE_SYMS

\* a response holding an upper-case wrapped symbol under a free id, and
\* a non-empty selection from it
C1_Witness ==
    /\ http = "ok"
    /\ universe # << >>
    /\ \E c \in Range(api) :
          c.symbol = "WBTC" /\ c.id \notin EXCLUDE_IDS \cup KNOWN_STABLE_IDS

\* the stable-like test as C2 words it: each change that is present must
\* meet its own bound
ClaimedStableLike(c) ==
    LET price == c.current_price
        ch24  == c.price_change_percentage_24h
        ch7d  == c.price_change_percentage_7d_in_currency
    IN  /\ price # None
        /\ 95 <= Val(price) /\ Val(price) <= 105
        /\ (ch24 = None \/ Abs(Val(ch24)) < 250)
        /\ (ch7d = None \/ Abs(Val(ch7d)) < 400)
        /\ (Contains("usd", Lower(c.symbol)) \/ Contains("usd", Lower(c.name)))

\* C2: a record that passes the id and symbol sets is dropped by
\* pick_universe exactly when its price is in [0.95, 1.05], each change
\* that is present is below its bound, and its symbol or name contains
\* "usd" (stated on responses short enough that nothing else is dropped)
C2_HeuristicAsClaimed ==
    (http = "ok" /\ Len(api) <= TOP_N) =>
        \A c \in Range(api) :
            (~Wrapped(c) /\ ~KnownStable(c)) =>
                (c \notin Range(universe) <=> ClaimedStableLike(c))

\* C3 as stated: the output is the first min(TOP_N, eligible) eligible
\* records of the whole sorted response
C3_ScansWholePage ==
    http = "ok" =>
        universe = FirstN(SelectSeq(SortByMarketCap(api), Eligible), TOP_N)

\* C3 (amended): pick_universe scans only the first 2*TOP_N records of
\* the response sorted by descending market cap; its output is the first
\* min(TOP_N, eligible among those) eligible records of them, in order.
C3_ScansWindow ==
    http = "ok" =>
        universe = FirstN(SelectSeq(FirstN(SortByMarketCap(api), 2 * TOP_N),
                                    Eligible), TOP_N)

\* the page holds TOP_N eligible records, the window fewer
C3_Witness ==
    /\ http = "ok"
    /\ Len(api) > 2 * TOP_N
    /\ Len(SelectSeq(api, Eligible)) >= TOP_N
    /\ Len(universe) < TOP_N

\* C4: pick_universe returns at most TOP_N records, so the report built
\* by fetch_data and the table displayed have at most TOP_N rows.
C4_AtMostTopN ==
    /\ Len(universe) <= TOP_N
    /\ Len(df) <= TOP_N
    /\ Len(shown) <= TOP_N

\* more than TOP_N eligible records were fetched and TOP_N are held
C4_Witness ==
    /\ http = "ok"
    /\ Len(SelectSeq(api, Eligible)) > TOP_N
    /\ Len(universe) = TOP_N
    /\ Len(df) = TOP_N

\* the triple C5 expects for a coin
ExpectedScenario(cid, price) ==
    IF cid \in DOMAIN SCENARIO_OVERRIDES THEN SCENARIO_OVERRIDES[cid]
    ELSE IF price = None \/ Val(price) <= 0 THEN <<DASH, DASH, DASH>>
    ELSE LET p == Val(price)
         IN  <<Fixed2(RoundHalfEven(p * 25, 10)),
               Fixed2(RoundHalfEven(p * 15, 10)),
               Fixed2(RoundHalfEven(p * 6, 10))>>

\* C5: each row carries the override of its coin id verbatim when there
\* is one, at every price; else the sentinel triple at a null or
\* non-positive price; else the triple computed from the price; and
\* building the rows of accepted records raises nothing.
C5_ScenarioTriple ==
    http = "ok" =>
        /\ exc # "none" => universe = << >>
        /\ exc = "none" => Len(df) = Len(universe)
        /\ \A i \in 1..Len(df) :
              LET c  == universe[i]
                  sc == <<df[i].Bull, df[i].Base, df[i].Bear>>
              IN  /\ sc = ExpectedScenario(c.id, c.current_price)
                  /\ c.id = "bitcoin" =>
                        sc = <<"200000", "120000-150000", "80000-100000">>
                  /\ (c.id = "foo" /\ c.current_price = Some(1000)) =>
                        sc = <<"25.00", "15.00", "6.00">>
                  /\ (c.id = "foo" /\ c.current_price = Some(123450)) =>
                        sc = <<"3,086.25", "1,851.75", "740.70">>

\* an overridden id at a null price got its override
C5_Witness ==
    /\ http = "ok"
    /\ \E i \in 1..Len(df) :
          /\ universe[i].id = "avalanche-2"
          /\ universe[i].current_price = None
          /\ df[i].Bull = "150"

\* C6: a run whose request failed shows the error, has stopped before
\* the table, displays no row and issued exactly one request.
C6_FailedFetchIsFatal ==
    http = "failed" =>
        /\ screen = "error"
        /\ exc = "HTTPError"
        /\ pc = "idle"
        /\ shown = << >>
        /\ httpCalls = 1

C6_Witness == http = "failed" /\ screen = "error" /\ api # << >>

\* C7: the rows carry Rank 1, 2, ..., n in order and market cap (null as
\* 0) does not increase with Rank, whatever the order of the response.
C7_RankedByMarketCap ==
    /\ \A i \in 1..Len(df) : df[i].Rank = i
    /\ \A i \in 1..Len(shown) : shown[i].Rank = i
    /\ \A i, j \in 1..Len(df) :
          i < j => CapOrZero(df[i].MarketCap) >= CapOrZero(df[j].MarketCap)

\* a table of two rows or more from a response that came unsorted
C7_Witness ==
    /\ screen = "table"
    /\ Len(shown) >= 2
    /\ \E i, j \in 1..Len(api) :
          /\ i < j
          /\ Eligible(api[i]) /\ Eligible(api[j])
          /\ CapOrZero(api[i].market_cap) < CapOrZero(api[j].market_cap)

C9_CachePolicy ==
    [][ (pc = "fetch" /\ pc' # "fetch") =>
          /\ (lastOk # None /\ ~refreshed /\ now - Val(lastOk) < TTL) =>
                (httpCalls' = 0 /\ pc' = "format")
          /\ (lastOk # None /\ now - Val(lastOk) >= TTL) => httpCalls' = 1
          /\ trigger = "refresh" => httpCalls' = 1 ]_vars

\* C10: a run shows the error only if its request failed; a run whose
\* request succeeded ends with the table, also when no record is accepted.
C10_ErrorOnlyOnFailedFetch ==
    /\ screen = "error" => http = "failed"
    /\ (http = "ok" /\ pc = "idle") => screen = "table"

====
